---- MODULE Spec2Model ----
(***************************************************************************)
(* Model of src/app.py: the banking receipt analyzer.                      *)
(*                                                                         *)
(* A receipt (the lines a text-recognition service reads on it) is         *)
(* processed by one of the two buttons of process_banking_receipt.  Each   *)
(* button calls its gateway method of BankingReceiptAnalyzer and, when the *)
(* gateway reports success, hands the recognised text to                   *)
(* BankingDataExtractor.extract_banking_fields, whose regular expressions  *)
(* are evaluated here character by character, with Python's leftmost,      *)
(* greedy, backtracking semantics.                                         *)
(*                                                                         *)
(* A text is a sequence of one-character strings.  The bullet character    *)
(* U+2022 is written "<bullet>".                                           *)
(***************************************************************************)
EXTENDS Integers, Sequences, FiniteSets, TLC

VARIABLES
    document,        \* the lines the recognition service reads on the uploaded receipt
    button,          \* the button whose branch ran last: "none", "textract_btn", "simple_btn"
    outcome,         \* what the Textract call of that run did: "none", "ok", "ClientError", "Exception"
    result,          \* the value the gateway method returned to process_banking_receipt
    full_text,       \* the text handed to extract_banking_fields in that run
    extract_calls,   \* how often extract_banking_fields was invoked in that run
    after_patterns,  \* the local dict `fields` when the pattern loop is done (line 158)
    after_accounts,  \* the local dict `fields` when _extract_account_numbers returned (line 161)
    banking_fields,  \* the dict extract_banking_fields returned (line 164)
    screen           \* what the run rendered below the button, in order

vars == <<document, button, outcome, result, full_text, extract_calls,
          after_patterns, after_accounts, banking_fields, screen>>

\* The most lines a receipt has.
MaxLines == 2

-----------------------------------------------------------------------------
(* Characters and strings *)

Chars(s) == [i \in 1..Len(s) |-> SubSeq(s, i, i)]

Bullet == "<bullet>"

Whitespace == {" ", "\t", "\n", "\r", "\f"}

Digits == {"0", "1", "2", "3", "4", "5", "6", "7", "8", "9"}

UpperCase == Chars("ABCDEFGHIJKLMNOPQRSTUVWXYZÁÉÍÓÚÑ")

LowerCase == Chars("abcdefghijklmnopqrstuvwxyzáéíóúñ")

LowerMap ==
    [c \in {UpperCase[i] : i \in DOMAIN UpperCase} |->
        LowerCase[CHOOSE i \in DOMAIN UpperCase : UpperCase[i] = c]]

WordChars ==
    {UpperCase[i] : i \in DOMAIN UpperCase} \cup {LowerCase[i] : i \in DOMAIN LowerCase}
        \cup Digits \cup {"_"}

\* str.lower(), one character
lower_char(c) == IF c \in DOMAIN LowerMap THEN LowerMap[c] ELSE c

\* str.lower()
lower(s) == [i \in DOMAIN s |-> lower_char(s[i])]

\* str.strip(): leading and trailing whitespace removed
strip(s) ==
    LET keep == {i \in DOMAIN s : s[i] \notin Whitespace}
    IN  IF keep = {} THEN <<>>
        ELSE SubSeq(s, CHOOSE i \in keep : \A j \in keep : i <= j,
                       CHOOSE i \in keep : \A j \in keep : j <= i)

\* `sub in s`
RECURSIVE OccursFrom(_, _, _)
OccursFrom(sub, s, p) ==
    IF p + Len(sub) - 1 > Len(s) THEN FALSE
    ELSE IF SubSeq(s, p, p + Len(sub) - 1) = sub THEN TRUE
    ELSE OccursFrom(sub, s, p + 1)

str_in(sub, s) == OccursFrom(sub, s, 1)

\* '\n'.join(lines)
RECURSIVE join(_)
join(lines) ==
    IF Len(lines) = 0 THEN <<>>
    ELSE IF Len(lines) = 1 THEN lines[1]
    ELSE lines[1] \o <<"\n">> \o join(Tail(lines))

-----------------------------------------------------------------------------
(* Regular expressions.  A pattern is a sequence of items; an item is a     *)
(* character class (a literal character, \s, \d, \w or [^\n]) repeated lo   *)
(* to hi times (inf: no upper limit), greedily; grp marks the items of the  *)
(* capturing group.                                                         *)

Item(kind, ch, lo, hi, inf) ==
    [kind |-> kind, ch |-> ch, lo |-> lo, hi |-> hi, inf |-> inf, grp |-> FALSE]

Lits(s) == [i \in DOMAIN s |-> Item("lit", s[i], 1, 1, FALSE)]

Star(kind, ch) == Item(kind, ch, 0, 0, TRUE)

Plus(kind, ch) == Item(kind, ch, 1, 1, TRUE)

Opt(kind, ch) == Item(kind, ch, 0, 1, FALSE)

Times(kind, ch, lo, hi) == Item(kind, ch, lo, hi, FALSE)

Group(items) == [i \in DOMAIN items |-> [items[i] EXCEPT !.grp = TRUE]]

\* re.IGNORECASE: literals compared after case folding
FoldItems(items) == [i \in DOMAIN items |-> [items[i] EXCEPT !.ch = lower_char(@)]]

InClass(item, c) ==
    CASE item.kind = "lit"   -> c = item.ch
      [] item.kind = "s"     -> c \in Whitespace
      [] item.kind = "d"     -> c \in Digits
      [] item.kind = "w"     -> c \in WordChars
      [] item.kind = "notnl" -> c # "\n"

\* how many characters from pos on the item can take at most, counting from m
RECURSIVE Run(_, _, _, _)
Run(item, t, pos, m) ==
    IF /\ pos + m <= Len(t)
       /\ (item.inf \/ m < item.hi)
       /\ InClass(item, t[pos + m])
    THEN Run(item, t, pos, m + 1)
    ELSE m

\* The backtracking match of items k.. at pos: the start of every item and the
\* end of the match, or <<>> when there is none.  An item first takes as many
\* characters as it can and gives them back one by one.
RECURSIVE MatchItems(_, _, _, _), TryCount(_, _, _, _, _)
MatchItems(items, k, t, pos) ==
    IF k > Len(items) THEN <<pos>>
    ELSE LET m == Run(items[k], t, pos, 0)
         IN  IF m < items[k].lo THEN <<>> ELSE TryCount(items, k, t, pos, m)

TryCount(items, k, t, pos, n) ==
    LET rest == MatchItems(items, k + 1, t, pos + n)
    IN  IF rest # <<>> THEN <<pos>> \o rest
        ELSE IF n > items[k].lo THEN TryCount(items, k, t, pos, n - 1)
        ELSE <<>>

\* the leftmost match that starts at s or later
RECURSIVE SearchFrom(_, _, _)
SearchFrom(items, t, s) ==
    IF s > Len(t) + 1 THEN <<>>
    ELSE LET P == MatchItems(items, 1, t, s)
         IN  IF P # <<>> THEN P ELSE SearchFrom(items, t, s + 1)

\* match.group(1) of a match with item positions P
group1(pattern, text, P) ==
    LET g == {i \in DOMAIN pattern : pattern[i].grp}
        first == CHOOSE i \in g : \A j \in g : i <= j
        last == CHOOSE i \in g : \A j \in g : j <= i
    IN  SubSeq(text, P[first], P[last + 1] - 1)

NoMatch == [found |-> FALSE, start |-> 0, group |-> <<>>]

\* re.search(pattern, text, re.IGNORECASE if ignorecase else 0)
re_search(pattern, text, ignorecase) ==
    LET items == IF ignorecase THEN FoldItems(pattern) ELSE pattern
        t == IF ignorecase THEN lower(text) ELSE text
        P == SearchFrom(items, t, 1)
    IN  IF P = <<>> THEN NoMatch
        ELSE [found |-> TRUE, start |-> P[1], group |-> group1(pattern, text, P)]

\* re.findall(pattern, text): the groups of the non-overlapping matches, left to right
RECURSIVE FindAllFrom(_, _, _)
FindAllFrom(pattern, text, s) ==
    LET P == SearchFrom(pattern, text, s)
    IN  IF P = <<>> THEN <<>>
        ELSE <<group1(pattern, text, P)>>
                \o FindAllFrom(pattern, text,
                               IF P[Len(P)] > P[1] THEN P[Len(P)] ELSE P[Len(P)] + 1)

re_findall(pattern, text) == FindAllFrom(pattern, text, 1)

-----------------------------------------------------------------------------
(* BankingDataExtractor *)

\* fields[key] = value on a Python dict: an absent key is added
DictSet(d, key, value) ==
    [k \in DOMAIN d \cup {key} |-> IF k = key THEN value ELSE d[k]]

\* the dict `fields` as extract_banking_fields creates it
fields_init ==
    [k \in {"importe_enviado", "entidad_destino", "comision", "itf",
            "numero_operacion", "tipo_operacion", "fecha", "cuenta_origen",
            "cuenta_destino", "estado_operacion"} |-> <<>>]

\* S/\s*(\d+\.?\d*) preceded by a label
Amount(label) ==
    Lits(Chars(label)) \o <<Star("s", "")>> \o Lits(Chars("S/")) \o <<Star("s", "")>>
        \o Group(<<Plus("d", ""), Opt("lit", "."), Star("d", "")>>)

\* label\s*([^\n]+)
RestOfLine(label) ==
    Lits(Chars(label)) \o <<Star("s", "")>> \o Group(<<Plus("notnl", "")>>)

\* label\s*(\d+)
Number(label) ==
    Lits(Chars(label)) \o <<Star("s", "")>> \o Group(<<Plus("d", "")>>)

\* the amount patterns with the generic S/ pattern tried first
importe_enviado_generic_first ==
    << Amount(""),
       Amount("Importe enviado"),
       Amount("Monto"),
       Amount("Importe") >>

importe_enviado_patterns ==
    << Amount("Importe enviado"),
       Amount(""),
       Amount("Monto"),
       Amount("Importe") >>

entidad_destino_patterns ==
    << RestOfLine("Entidad destino"),
       RestOfLine("Destino"),
       RestOfLine("Banco destino") >>

comision_patterns ==
    << Amount("Comisión"),
       Amount("Comision") >>

itf_patterns ==
    << Amount("ITF") >>

numero_operacion_patterns ==
    << Number("Número de operación"),
       Number("Numero de operacion"),
       Number("Operación"),
       Lits(Chars("Nro.")) \o <<Star("s", "")>> \o Number("operación") >>

tipo_operacion_patterns ==
    << RestOfLine("Tipo de operación"),
       RestOfLine("Tipo de operacion"),
       RestOfLine("Operación") >>

fecha_patterns ==
    << Group(<<Times("d", "", 1, 2), Plus("s", ""), Plus("w", ""), Plus("s", ""),
               Times("d", "", 4, 4), Opt("lit", ","), Plus("s", ""),
               Times("d", "", 1, 2)>> \o Lits(Chars(":"))
             \o <<Times("d", "", 2, 2), Star("s", ""), Opt("lit", "h")>>),
       Group(<<Times("d", "", 1, 2)>> \o Lits(Chars("/"))
             \o <<Times("d", "", 1, 2)>> \o Lits(Chars("/"))
             \o <<Times("d", "", 4, 4), Plus("s", ""), Times("d", "", 1, 2)>>
             \o Lits(Chars(":")) \o <<Times("d", "", 2, 2)>>),
       Group(<<Times("d", "", 4, 4)>> \o Lits(Chars("-"))
             \o <<Times("d", "", 2, 2)>> \o Lits(Chars("-"))
             \o <<Times("d", "", 2, 2), Plus("s", ""), Times("d", "", 2, 2)>>
             \o Lits(Chars(":")) \o <<Times("d", "", 2, 2)>>) >>

estado_operacion_patterns ==
    << Group(Lits(Chars("Operación exitosa"))),
       Group(Lits(Chars("Operacion exitosa"))),
       Group(Lits(Chars("Exitosa"))),
       Group(Lits(Chars("Completada"))),
       Group(Lits(Chars("Aprobada"))) >>

\* `patterns` with the date patterns under a key that `fields` does not have
patterns_fecha_hora ==
    << [field |-> "importe_enviado",  pattern_list |-> importe_enviado_patterns],
       [field |-> "entidad_destino",  pattern_list |-> entidad_destino_patterns],
       [field |-> "comision",         pattern_list |-> comision_patterns],
       [field |-> "itf",              pattern_list |-> itf_patterns],
       [field |-> "numero_operacion", pattern_list |-> numero_operacion_patterns],
       [field |-> "tipo_operacion",   pattern_list |-> tipo_operacion_patterns],
       [field |-> "fecha_hora",       pattern_list |-> fecha_patterns],
       [field |-> "estado_operacion", pattern_list |-> estado_operacion_patterns] >>

\* the dict `patterns`, in insertion order
patterns ==
    << [field |-> "importe_enviado",  pattern_list |-> importe_enviado_patterns],
       [field |-> "entidad_destino",  pattern_list |-> entidad_destino_patterns],
       [field |-> "comision",         pattern_list |-> comision_patterns],
       [field |-> "itf",              pattern_list |-> itf_patterns],
       [field |-> "numero_operacion", pattern_list |-> numero_operacion_patterns],
       [field |-> "tipo_operacion",   pattern_list |-> tipo_operacion_patterns],
       [field |-> "fecha",            pattern_list |-> fecha_patterns],
       [field |-> "estado_operacion", pattern_list |-> estado_operacion_patterns] >>

\* the inner loop without its break: every pattern is tried and the last match stays
RECURSIVE SearchPatternList_no_break(_, _, _)
SearchPatternList_no_break(pattern_list, text, i) ==
    IF i > Len(pattern_list) THEN [found |-> FALSE, value |-> <<>>]
    ELSE IF SearchPatternList_no_break(pattern_list, text, i + 1).found
    THEN SearchPatternList_no_break(pattern_list, text, i + 1)
    ELSE IF re_search(pattern_list[i], text, TRUE).found
    THEN [found |-> TRUE, value |-> strip(re_search(pattern_list[i], text, TRUE).group)]
    ELSE [found |-> FALSE, value |-> <<>>]

\* the inner loop from pattern i on: the stripped group of the first pattern
\* that matches (the loop breaks there), or no assignment
RECURSIVE SearchPatternList(_, _, _)
SearchPatternList(pattern_list, text, i) ==
    IF i > Len(pattern_list) THEN [found |-> FALSE, value |-> <<>>]
    ELSE LET match == re_search(pattern_list[i], text, TRUE)
         IN  IF match.found THEN [found |-> TRUE, value |-> strip(match.group)]
             ELSE SearchPatternList(pattern_list, text, i + 1)

\* the outer loop from entry n of `patterns` on
RECURSIVE SearchPatterns(_, _, _)
SearchPatterns(text, fields, n) ==
    IF n > Len(patterns) THEN fields
    ELSE LET hit == SearchPatternList(patterns[n].pattern_list, text, 1)
         IN  SearchPatterns(text,
                            IF hit.found THEN DictSet(fields, patterns[n].field, hit.value)
                            ELSE fields,
                            n + 1)

account_patterns ==
    << <<Item("lit", Bullet, 1, 1, FALSE)>> \o Group(<<Times("d", "", 4, 4)>>),
       Number("Cuenta"),
       Lits(Chars("Cta.")) \o <<Star("s", "")>> \o Group(<<Plus("d", "")>>) >>

\* the list `accounts` when the loop over account_patterns is done
RECURSIVE CollectAccounts(_, _)
CollectAccounts(text, n) ==
    IF n > Len(account_patterns) THEN <<>>
    ELSE re_findall(account_patterns[n], text) \o CollectAccounts(text, n + 1)

\* _extract_account_numbers with `> 2` for `>= 2`
_extract_account_numbers_gt(text, fields) ==
    IF Len(CollectAccounts(text, 1)) > 2
    THEN DictSet(DictSet(fields, "cuenta_origen", CollectAccounts(text, 1)[1]),
                 "cuenta_destino", CollectAccounts(text, 1)[2])
    ELSE IF Len(CollectAccounts(text, 1)) = 1
    THEN DictSet(fields, "cuenta_origen", CollectAccounts(text, 1)[1])
    ELSE fields

_extract_account_numbers(text, fields) ==
    LET accounts == CollectAccounts(text, 1)
    IN  IF Len(accounts) >= 2
        THEN DictSet(DictSet(fields, "cuenta_origen", accounts[1]),
                     "cuenta_destino", accounts[2])
        ELSE IF Len(accounts) = 1
        THEN DictSet(fields, "cuenta_origen", accounts[1])
        ELSE fields

bank_names ==
    << Chars("BBVA"), Chars("Plin"), Chars("BCP"), Chars("Interbank"),
       Chars("Scotiabank"), Chars("BanBif") >>

\* the loop over bank_names from name n on
RECURSIVE ScanBankNames(_, _, _)
ScanBankNames(text, fields, n) ==
    IF n > Len(bank_names) THEN fields
    ELSE IF str_in(lower(bank_names[n]), lower(text))
    THEN IF fields["entidad_destino"] = <<>>
         THEN DictSet(fields, "entidad_destino", bank_names[n])
         ELSE fields
    ELSE ScanBankNames(text, fields, n + 1)

\* _extract_bank_names with `bank in text`, no case folding
RECURSIVE ScanBankNames_case(_, _, _)
ScanBankNames_case(text, fields, n) ==
    IF n > Len(bank_names) THEN fields
    ELSE IF str_in(bank_names[n], text)
    THEN IF fields["entidad_destino"] = <<>>
         THEN DictSet(fields, "entidad_destino", bank_names[n])
         ELSE fields
    ELSE ScanBankNames_case(text, fields, n + 1)

_extract_bank_names_case(text, fields) == ScanBankNames_case(text, fields, 1)

\* _extract_bank_names without `if not fields['entidad_destino']`
RECURSIVE ScanBankNames_overwrite(_, _, _)
ScanBankNames_overwrite(text, fields, n) ==
    IF n > Len(bank_names) THEN fields
    ELSE IF str_in(lower(bank_names[n]), lower(text))
    THEN DictSet(fields, "entidad_destino", bank_names[n])
    ELSE ScanBankNames_overwrite(text, fields, n + 1)

_extract_bank_names_overwrite(text, fields) == ScanBankNames_overwrite(text, fields, 1)

_extract_bank_names(text, fields) == ScanBankNames(text, fields, 1)

\* the dict after each step of extract_banking_fields: f1 when the pattern loop
\* is done, f2 when _extract_account_numbers returned, and the dict returned
FieldsAfterSteps(text, f1, f2) ==
    [after_patterns |-> f1, after_accounts |-> f2,
     returned |-> _extract_bank_names(text, f2)]

AfterPatterns(text, f1) ==
    FieldsAfterSteps(text, f1, _extract_account_numbers(text, f1))

extract_banking_fields(text) ==
    AfterPatterns(text, SearchPatterns(text, fields_init, 1))

-----------------------------------------------------------------------------
(* BankingReceiptAnalyzer: the gateway to Textract *)

\* the line up to its first space: a WORD block of the response
first_word(line) ==
    LET sp == {i \in DOMAIN line : line[i] = " "}
    IN  IF sp = {} THEN line
        ELSE SubSeq(line, 1, (CHOOSE i \in sp : \A j \in sp : i <= j) - 1)

\* response['Blocks'] of a Textract call that succeeds on the receipt: the
\* page, its lines, then their words
Blocks(doc) ==
    <<[BlockType |-> "PAGE", Text |-> <<>>]>>
        \o [i \in DOMAIN doc |-> [BlockType |-> "LINE", Text |-> doc[i]]]
        \o [i \in DOMAIN doc |-> [BlockType |-> "WORD", Text |-> first_word(doc[i])]]

\* the loop that keeps the Text of the LINE blocks
RECURSIVE text_blocks(_)
text_blocks(blocks) ==
    IF blocks = <<>> THEN <<>>
    ELSE (IF Head(blocks).BlockType = "LINE" THEN <<Head(blocks).Text>> ELSE <<>>)
            \o text_blocks(Tail(blocks))

\* what the Textract client does on a call
Outcomes == {"ok", "ClientError", "Exception"}

\* analyze_document_with_forms with `except Exception` answering an empty success
analyze_document_with_forms_swallow(doc, oc) ==
    IF oc = "ok" THEN [success |-> TRUE, blocks |-> Blocks(doc)]
    ELSE IF oc = "ClientError" THEN [success |-> FALSE, error |-> "Error de AWS"]
    ELSE [success |-> TRUE, blocks |-> <<>>]

analyze_document_with_forms(doc, oc) ==
    IF oc = "ok" THEN [success |-> TRUE, blocks |-> Blocks(doc)]
    ELSE IF oc = "ClientError" THEN [success |-> FALSE, error |-> "Error de AWS"]
    ELSE [success |-> FALSE, error |-> "Error inesperado"]

extract_text_simple(doc, oc) ==
    IF oc = "ok"
    THEN [success |-> TRUE, text |-> join(text_blocks(Blocks(doc))), blocks |-> Blocks(doc)]
    ELSE IF oc = "ClientError" THEN [success |-> FALSE, error |-> "Error de AWS"]
    ELSE [success |-> FALSE, error |-> "Error inesperado"]

-----------------------------------------------------------------------------
(* process_banking_receipt: one run of the page per button click *)

\* the success branch of either tab: the fields e extracted from text are shown
ShowFields(text, e) ==
    /\ full_text' = text
    /\ extract_calls' = 1
    /\ after_patterns' = e.after_patterns
    /\ after_accounts' = e.after_accounts
    /\ banking_fields' = e.returned
    /\ screen' = <<"success", "banking_data", "text_area">>

\* the else branch of either tab
ShowError(r) ==
    /\ full_text' = <<>>
    /\ extract_calls' = 0
    /\ after_patterns' = <<>>
    /\ after_accounts' = <<>>
    /\ banking_fields' = <<>>
    /\ screen' = <<"error", r.error>>

\* '\n'.join(text_blocks) of tab 1
forms_text(r) == IF r.success THEN join(text_blocks(r.blocks)) ELSE <<>>

\* result["text"] of tab 2
simple_text(r) == IF r.success THEN r.text ELSE <<>>

\* what either tab does with the gateway's result r, text being the text r holds
ShowResult(r, text) ==
    IF r.success THEN ShowFields(text, extract_banking_fields(text)) ELSE ShowError(r)

\* tab 1, "Analizar con Textract"
TextractBtn ==
    \E oc \in Outcomes :
        /\ button' = "textract_btn"
        /\ outcome' = oc
        /\ result' = analyze_document_with_forms(document, oc)
        /\ ShowResult(analyze_document_with_forms(document, oc),
                      forms_text(analyze_document_with_forms(document, oc)))
        /\ UNCHANGED document

\* tab 2, "Extracción Simple"
SimpleBtn ==
    \E oc \in Outcomes :
        /\ button' = "simple_btn"
        /\ outcome' = oc
        /\ result' = extract_text_simple(document, oc)
        /\ ShowResult(extract_text_simple(document, oc),
                      simple_text(extract_text_simple(document, oc)))
        /\ UNCHANGED document

-----------------------------------------------------------------------------
(* Receipts *)

\* lines of receipts: amounts, entity, operation number, status, date
Lines ==
    { Chars("Importe enviado S/ 150.50"),
      Chars("Monto S/ 50"),
      Chars("Entidad destino: Interbank"),
      Chars("Número de operación 998877"),
      Chars("Operación exitosa"),
      Chars("12 ago 2025, 10:30") }

\* lines with amounts
AmountLines ==
    { Chars("Importe enviado S/ 150.50"),
      Chars("Importe enviado S/ 20"),
      Chars("Importe enviado S/ 150.505"),
      Chars("importe enviado s/7"),
      Chars("Comisión S/ 1.00"),
      Chars("Monto S/ 50") }

\* lines with entity labels and known names
EntityLines ==
    { Chars("Entidad destino: Interbank"),
      Chars("Entidad destino"),
      Chars("Destino "),
      Chars("BBVA"),
      Chars("Pago con plin"),
      Chars("Scotiabank") }

\* lines with account numbers
AccountLines ==
    { <<Bullet>> \o Chars("1234"),
      <<Bullet>> \o Chars("5678"),
      <<Bullet>> \o Chars("1234 ") \o <<Bullet>> \o Chars("56789"),
      Chars("Cuenta 9012"),
      Chars("Cta. 77"),
      Chars("BBVA") }

Documents(lines) == UNION {[1..n -> lines] : n \in 0..MaxLines}

InitWith(lines) ==
    /\ document \in Documents(lines)
    /\ button = "none"
    /\ outcome = "none"
    /\ result = [success |-> FALSE, error |-> ""]
    /\ full_text = <<>>
    /\ extract_calls = 0
    /\ after_patterns = <<>>
    /\ after_accounts = <<>>
    /\ banking_fields = <<>>
    /\ screen = <<>>

Init == InitWith(Lines)

Next == TextractBtn \/ SimpleBtn

Spec == Init /\ [][Next]_vars

SpecAmounts == InitWith(AmountLines) /\ [][Next]_vars

SpecEntities == InitWith(EntityLines) /\ [][Next]_vars

SpecAccounts == InitWith(AccountLines) /\ [][Next]_vars

-----------------------------------------------------------------------------
(* Properties *)

\* the ten field names of the record
FieldKeys ==
    {"importe_enviado", "entidad_destino", "comision", "itf", "numero_operacion",
     "tipo_operacion", "fecha", "cuenta_origen", "cuenta_destino", "estado_operacion"}

\* sub occurs in s at position p
OccursAt(sub, s, p) ==
    /\ p + Len(sub) - 1 <= Len(s)
    /\ SubSeq(s, p, p + Len(sub) - 1) = sub

\* the pattern, case-insensitively, has a match that starts at position p of text
MatchesAt(pattern, text, p) ==
    MatchItems(FoldItems(pattern), 1, lower(text), p) # <<>>

\* the pattern, case-insensitively, matches somewhere in text
Matches(pattern, text) ==
    \E p \in 1..(Len(text) + 1) : MatchesAt(pattern, text, p)

\* the patterns of a list that match text
Matching(pattern_list, text) ==
    {i \in DOMAIN pattern_list : Matches(pattern_list[i], text)}

Lowest(S) == CHOOSE i \in S : \A j \in S : i <= j

\* v is g without its leading and trailing whitespace
IsTrimOf(v, g) ==
    /\ v # <<>> => (v[1] \notin Whitespace /\ v[Len(v)] \notin Whitespace)
    /\ \E a \in 0..Len(g) :
          /\ a + Len(v) <= Len(g)
          /\ SubSeq(g, a + 1, a + Len(v)) = v
          /\ \A i \in 1..a : g[i] \in Whitespace
          /\ \A i \in (a + Len(v) + 1)..Len(g) : g[i] \in Whitespace

\* C1: whatever the text (the empty text and a text no pattern matches
\* included), the record has exactly the ten field keys when the pattern loop
\* is done, when the account fallback returned and when it is returned: no key
\* is missing and none is added.
C1_ExactlyTenKeys ==
    extract_calls = 1 =>
        /\ DOMAIN after_patterns = FieldKeys
        /\ DOMAIN after_accounts = FieldKeys
        /\ DOMAIN banking_fields = FieldKeys

\* extraction ran on the empty text and returned the ten keys, all empty
C1_Witness ==
    /\ extract_calls = 1
    /\ full_text = <<>>
    /\ DOMAIN banking_fields = FieldKeys
    /\ \A k \in FieldKeys : banking_fields[k] = <<>>

\* C2: when the pattern loop is done, every field with a pattern list holds the
\* whitespace-trimmed first group of the leftmost match of the lowest-index
\* pattern of its list that matches the text case-insensitively, whatever the
\* later patterns of the list match; it is empty when no pattern matches.
C2_LowestMatchingPattern ==
    extract_calls = 1 =>
        \A n \in DOMAIN patterns :
            IF Matching(patterns[n].pattern_list, full_text) = {}
            THEN after_patterns[patterns[n].field] = <<>>
            ELSE IsTrimOf(after_patterns[patterns[n].field],
                          re_search(patterns[n].pattern_list[
                                        Lowest(Matching(patterns[n].pattern_list, full_text))],
                                    full_text, TRUE).group)

\* the amount came from the generic pattern although a later pattern matches
\* too, and the date was trimmed of the line break its group took
C2_Witness ==
    /\ extract_calls = 1
    /\ Matching(importe_enviado_patterns, full_text) = {2, 3}
    /\ after_patterns["importe_enviado"] = Chars("50")
    /\ Matches(fecha_patterns[1], full_text)
    /\ re_search(fecha_patterns[1], full_text, TRUE).group # after_patterns["fecha"]

\* the list `accounts` of C3: the matches of the bullet pattern, then those of
\* 'Cuenta <digits>', then those of 'Cta. <digits>', each in text order
C3_accounts ==
    re_findall(account_patterns[1], full_text)
        \o re_findall(account_patterns[2], full_text)
        \o re_findall(account_patterns[3], full_text)

\* C3: with two or more account matches the source account is the first and
\* the destination account the second; with exactly one the source account is
\* it and the destination account is empty; with none both are empty.  The
\* text with the bullet matches 1234 then 5678 gives "1234" and "5678".
C3_AccountsAssigned ==
    extract_calls = 1 =>
        /\ Len(C3_accounts) >= 2 =>
              /\ banking_fields["cuenta_origen"] = C3_accounts[1]
              /\ banking_fields["cuenta_destino"] = C3_accounts[2]
        /\ Len(C3_accounts) = 1 =>
              /\ banking_fields["cuenta_origen"] = C3_accounts[1]
              /\ banking_fields["cuenta_destino"] = <<>>
        /\ Len(C3_accounts) = 0 =>
              /\ banking_fields["cuenta_origen"] = <<>>
              /\ banking_fields["cuenta_destino"] = <<>>
        /\ full_text = <<Bullet>> \o Chars("1234") \o <<"\n", Bullet>> \o Chars("5678") =>
              /\ banking_fields["cuenta_origen"] = Chars("1234")
              /\ banking_fields["cuenta_destino"] = Chars("5678")

\* two accounts, the one later in the text first because its pattern is first
C3_Witness ==
    /\ extract_calls = 1
    /\ full_text = Chars("Cuenta 9012") \o <<"\n", Bullet>> \o Chars("1234")
    /\ banking_fields["cuenta_origen"] = Chars("1234")
    /\ banking_fields["cuenta_destino"] = Chars("9012")

\* the known names that occur in the text, case-insensitively
C4_names ==
    {i \in DOMAIN bank_names : str_in(lower(bank_names[i]), lower(full_text))}

\* C4: when no explicit destination-entity pattern matches, the destination
\* entity is the first name of the list BBVA, Plin, BCP, Interbank, Scotiabank,
\* BanBif that occurs in the text case-insensitively, wherever the names stand
\* in the text, and is empty when none occurs; with "BBVA" in the text it is
\* "BBVA".
C4_FirstKnownName ==
    (extract_calls = 1 /\ Matching(entidad_destino_patterns, full_text) = {}) =>
        /\ banking_fields["entidad_destino"] =
              IF C4_names = {} THEN <<>> ELSE bank_names[Lowest(C4_names)]
        /\ str_in(Chars("BBVA"), full_text) =>
              banking_fields["entidad_destino"] = Chars("BBVA")

\* "plin" stands before "BBVA" in the text and BBVA, first in the list, is taken
C4_Witness ==
    /\ extract_calls = 1
    /\ full_text = Chars("Pago con plin") \o <<"\n">> \o Chars("BBVA")
    /\ Matching(entidad_destino_patterns, full_text) = {}
    /\ banking_fields["entidad_destino"] = Chars("BBVA")

\* C5: when the explicit pattern matches destination_entity through
\* "Entidad destino: Interbank" and the text also contains "BBVA", the returned
\* destination entity is "Interbank".
C5_InterbankKept ==
    ( /\ extract_calls = 1
      /\ \E p \in 1..Len(full_text) :
            /\ OccursAt(Chars("Entidad destino: Interbank"), full_text, p)
            /\ re_search(entidad_destino_patterns[1], full_text, TRUE).start = p
      /\ str_in(Chars("BBVA"), full_text) )
    => banking_fields["entidad_destino"] = Chars("Interbank")

\* an occurrence of "Importe enviado S/ 150.50" that no digit follows and that
\* no match of 'Importe enviado S/ <number>' precedes
C6_FirstAndWhole ==
    \E p \in 1..Len(full_text) :
        /\ OccursAt(Chars("Importe enviado S/ 150.50"), full_text, p)
        /\ \/ p + Len(Chars("Importe enviado S/ 150.50")) > Len(full_text)
           \/ full_text[p + Len(Chars("Importe enviado S/ 150.50"))] \notin Digits
        /\ \A q \in 1..(p - 1) : ~MatchesAt(Amount("Importe enviado"), full_text, q)

\* C6, as the claim states it: every text that contains
\* "Importe enviado S/ 150.50" gives the amount "150.50".
C6_AnyOccurrence ==
    (extract_calls = 1 /\ str_in(Chars("Importe enviado S/ 150.50"), full_text)) =>
        banking_fields["importe_enviado"] = Chars("150.50")

\* C6, amended: a text in which an occurrence of "Importe enviado S/ 150.50" is
\* not directly followed by a digit and is not preceded by a match of
\* 'Importe enviado S/ <number>' gives the amount "150.50", whatever other
\* amounts the text holds.
C6_FirstOccurrence ==
    (extract_calls = 1 /\ C6_FirstAndWhole) =>
        banking_fields["importe_enviado"] = Chars("150.50")

\* a commission amount stands before the occurrence, another amount after it
C6_Witness ==
    /\ extract_calls = 1
    /\ C6_FirstAndWhole
    /\ full_text = Chars("Comisión S/ 1.00") \o <<"\n">> \o Chars("Importe enviado S/ 150.50")
    /\ banking_fields["importe_enviado"] = Chars("150.50")

\* C7: the text "Número de operación 998877" / "Operación exitosa" gives the
\* operation number "998877", the status "Operación exitosa" and every other
\* field, the operation type included, empty.
C7_Scenario ==
    ( /\ extract_calls = 1
      /\ full_text = Chars("Número de operación 998877") \o <<"\n">> \o Chars("Operación exitosa") )
    => /\ banking_fields["numero_operacion"] = Chars("998877")
       /\ banking_fields["estado_operacion"] = Chars("Operación exitosa")
       /\ \A k \in FieldKeys \ {"numero_operacion", "estado_operacion"} :
             banking_fields[k] = <<>>

\* C8: in a run of either button extract_banking_fields is invoked only when
\* the Textract call succeeded and the gateway returned a success value; when
\* the call fails with a service error or another exception the gateway returns
\* a failure value with an error message, the error is shown, and neither the
\* extraction nor the display of the record happens.
C8_ExtractionOnlyAfterSuccess ==
    button # "none" =>
        /\ extract_calls > 0 => (outcome = "ok" /\ result.success)
        /\ outcome # "ok" =>
              /\ ~result.success
              /\ result.error # ""
              /\ extract_calls = 0
              /\ banking_fields = <<>>
              /\ screen = <<"error", result.error>>

\* the forms button was clicked, Textract raised a service error, the error is shown
C8_Witness ==
    /\ button = "textract_btn"
    /\ outcome = "ClientError"
    /\ ~result.success
    /\ extract_calls = 0
    /\ screen = <<"error", "Error de AWS">>

\* C9: the entity-name fallback changes destination_entity only when it is
\* empty when the fallback runs: a destination entity a field pattern has set
\* stays, whichever known names the text holds, and the other nine fields are
\* the same before and after the fallback.
C9_FallbackFrame ==
    extract_calls = 1 =>
        /\ after_accounts["entidad_destino"] # <<>> =>
              banking_fields["entidad_destino"] = after_accounts["entidad_destino"]
        /\ \A k \in FieldKeys \ {"entidad_destino"} : banking_fields[k] = after_accounts[k]

\* a pattern has set the destination entity, the text holds the known name
\* BBVA, and the entity the pattern set is returned
C9_Witness ==
    /\ extract_calls = 1
    /\ after_patterns["entidad_destino"] # <<>>
    /\ after_patterns["entidad_destino"] # Chars("BBVA")
    /\ str_in(Chars("BBVA"), full_text)
    /\ banking_fields["entidad_destino"] = after_patterns["entidad_destino"]

\* the specific amount patterns, in priority order
C10_specific ==
    <<Amount("Importe enviado"), Amount("Monto"), Amount("Importe")>>

\* C10: whenever one of the specific amount patterns ('Importe enviado S/',
\* 'Monto S/', 'Importe S/') matches, the amount is the number the
\* highest-priority specific pattern that matches captures, not a number the
\* generic 'S/ <number>' pattern finds elsewhere in the text.
C10_SpecificBeforeGeneric ==
    (extract_calls = 1 /\ Matching(C10_specific, full_text) # {}) =>
        banking_fields["importe_enviado"] =
            strip(re_search(C10_specific[Lowest(Matching(C10_specific, full_text))],
                            full_text, TRUE).group)

====
